---- MODULE Spec2Model ----
(***************************************************************************)
(* A model of kewpie.Queue[T] (src/kewpie.go): a FIFO queue over a ring    *)
(* buffer that doubles when full and halves when at most a quarter full.   *)
(*                                                                         *)
(* A Go slice index i is the TLA+ sequence index i + 1.  The queue's       *)
(* fields are the variables data, head, tail and size; the operators below *)
(* work on a record of the four fields and the actions store the result.   *)
(* enqueued and returned are history variables: everything ever handed to  *)
(* Enqueue/EnqueueBatch and everything ever handed back by a successful    *)
(* Dequeue/DequeueBatch.  lastOp, lastArg, lastRet and lastErr record the  *)
(* latest call, its argument and its results; lastAlloc records the        *)
(* outcome of the allocations the latest call was given (TRUE: make        *)
(* succeeds, FALSE: make panics) and prevCap the capacity the latest call  *)
(* started from; allocFails counts the failing outcomes handed out so far. *)
(* The record carries a fifth field, calls: the resize calls that replaced *)
(* the storage during the call in progress, each with the capacity it was  *)
(* asked for and the size it found; lastResizes keeps it for the latest    *)
(* call.  loop is the position of an EnqueueBatch call that is followed    *)
(* statement by statement through its capacity-doubling loop, with the     *)
(* loop's two integers at their machine width (scaled to IntBits bits).    *)
(***************************************************************************)
EXTENDS Integers, Sequences, FiniteSets, TLC

VARIABLES data, head, tail, size,
          enqueued, returned,
          lastOp, lastArg, lastRet, lastErr, lastAlloc, prevCap,
          allocFails, lastResizes, loop

vars == <<data, head, tail, size, enqueued, returned,
          lastOp, lastArg, lastRet, lastErr, lastAlloc, prevCap,
          allocFails, lastResizes, loop>>

qvars == <<data, head, tail, size>>

\* ---------------------------------------------------------------- bounds
\* Elements are the integers 0..MaxVal; 0 is Go's zero value of T = int.
MaxVal == 1
\* Requested initial capacities range over -1..MaxInitCap.
MaxInitCap == 4
\* Go's int is a two's-complement integer of IntBits bits (64 in the
\* program, scaled down here).
IntBits == 6
MaxInt == 2^(IntBits - 1) - 1
\* Batches hold at most MaxBatch items; DequeueBatch asks for -1..MaxBatch.
MaxBatch == 3
\* At most MaxEnq elements are enqueued over a whole run.
MaxEnq == 5
\* At most MaxAllocFails allocations fail over a whole run.
MaxAllocFails == 1

Zero == 0
Elements == 0..MaxVal
NoValue == -1

\* ------------------------------------------------------------- the queue
Queue ==
    [data |-> data, head |-> head, tail |-> tail, size |-> size,
     calls |-> <<>>]

max(a, b) == IF a > b THEN a ELSE b

\* make([]T, n): n slots holding the zero value.
make(n) == [i \in 1..n |-> Zero]

\* The variadic argument list of NewQueue: none, or one requested capacity,
\* or two (only the first is read).
InitRequests ==
    {<<>>} \cup {<<n>> : n \in -1..MaxInitCap} \cup {<<2, 1>>, <<0, 3>>}

\* NewQueue without the coercion of a non-positive capacity.
NewQueue_NoCoerce(sizes) ==
    LET size0 == IF Len(sizes) > 0 THEN sizes[1] ELSE 1
    IN  [data |-> make(size0), head |-> 0, tail |-> 0, size |-> 0,
         calls |-> <<>>]

NewQueue(sizes) ==
    LET size0 == IF Len(sizes) > 0 THEN sizes[1] ELSE 1
        size1 == IF size0 <= 0 THEN 1 ELSE size0
    IN  [data |-> make(size1), head |-> 0, tail |-> 0, size |-> 0,
         calls |-> <<>>]

\* resize copying the old slots from index 0 instead of from head.
resize_NoHead(queue, newCapacity, allocOK) ==
    IF ~allocOK THEN queue
    ELSE
      LET nc == IF newCapacity <= queue.size
                THEN max(queue.size, 1) ELSE newCapacity
          newData == [i \in 1..nc |->
                        IF i - 1 < queue.size
                        THEN queue.data[((i - 1) % Len(queue.data)) + 1]
                        ELSE Zero]
      IN  [data |-> newData, head |-> 0,
           tail |-> queue.size, size |-> queue.size,
           calls |-> Append(queue.calls,
                            [newCapacity |-> newCapacity,
                             size |-> queue.size])]

\* resize resetting the cursors before it allocates.
resize_EagerReset(queue, newCapacity, allocOK) ==
    IF ~allocOK
    THEN [data |-> queue.data, head |-> 0,
          tail |-> queue.size, size |-> queue.size, calls |-> queue.calls]
    ELSE
      LET nc == IF newCapacity <= queue.size
                THEN max(queue.size, 1) ELSE newCapacity
          newData == [i \in 1..nc |->
                        IF i - 1 < queue.size
                        THEN queue.data[((queue.head + (i - 1))
                                           % Len(queue.data)) + 1]
                        ELSE Zero]
      IN  [data |-> newData, head |-> 0,
           tail |-> queue.size, size |-> queue.size,
           calls |-> Append(queue.calls,
                            [newCapacity |-> newCapacity,
                             size |-> queue.size])]

\* resize clamping the capacity to 1 only, not to the size.
resize_ClampToOne(queue, newCapacity, allocOK) ==
    IF ~allocOK THEN queue
    ELSE
      LET nc == max(newCapacity, 1)
          newData == [i \in 1..nc |->
                        IF i - 1 < queue.size
                        THEN queue.data[((queue.head + (i - 1))
                                           % Len(queue.data)) + 1]
                        ELSE Zero]
      IN  [data |-> newData, head |-> 0,
           tail |-> queue.size, size |-> queue.size,
           calls |-> Append(queue.calls,
                            [newCapacity |-> newCapacity,
                             size |-> queue.size])]

\* resize: allocOK = FALSE is the make() that panics; the deferred recover
\* swallows the panic and resize returns having assigned nothing.
resize(queue, newCapacity, allocOK) ==
    IF ~allocOK THEN queue
    ELSE
      LET nc == IF newCapacity <= queue.size
                THEN max(queue.size, 1) ELSE newCapacity
          newData == [i \in 1..nc |->
                        IF i - 1 < queue.size
                        THEN queue.data[((queue.head + (i - 1))
                                           % Len(queue.data)) + 1]
                        ELSE Zero]
      IN  [data |-> newData, head |-> 0,
           tail |-> queue.size, size |-> queue.size,
           calls |-> Append(queue.calls,
                            [newCapacity |-> newCapacity,
                             size |-> queue.size])]

\* Storing one element without wrapping the tail around.
Store_NoWrap(queue, item) ==
    [data |-> [queue.data EXCEPT ![queue.tail + 1] = item],
     head |-> queue.head,
     tail |-> queue.tail + 1,
     size |-> queue.size + 1,
     calls |-> queue.calls]

\* The three statements that store one element at the tail.
Store(queue, item) ==
    [data |-> [queue.data EXCEPT ![queue.tail + 1] = item],
     head |-> queue.head,
     tail |-> (queue.tail + 1) % Len(queue.data),
     size |-> queue.size + 1,
     calls |-> queue.calls]

\* Enqueue growing only once size exceeds the capacity.
Enqueue_LateGrow(queue, item, allocOK) ==
    LET q1 == IF queue.size > Len(queue.data)
              THEN resize(queue, Len(queue.data) * 2, allocOK)
              ELSE queue
    IN  Store(q1, item)

\* Enqueue growing a full queue by one slot.
Enqueue_GrowByOne(queue, item, allocOK) ==
    LET q1 == IF queue.size = Len(queue.data)
              THEN resize(queue, Len(queue.data) + 1, allocOK)
              ELSE queue
    IN  Store(q1, item)

Enqueue(queue, item, allocOK) ==
    LET q1 == IF queue.size = Len(queue.data)
              THEN resize(queue, Len(queue.data) * 2, allocOK)
              ELSE queue
    IN  Store(q1, item)

\* The doubling loop started from 1 instead of from the capacity.
RECURSIVE GrowCapacity_FromOne(_, _)
GrowCapacity_FromOne(newCapacity, requiredCapacity) ==
    IF requiredCapacity <= 1 THEN 1
    ELSE 2 * GrowCapacity_FromOne(newCapacity,
                                  (requiredCapacity + 1) \div 2)

\* for newCapacity < requiredCapacity { newCapacity *= 2 }
RECURSIVE GrowCapacity(_, _)
GrowCapacity(newCapacity, requiredCapacity) ==
    IF newCapacity < requiredCapacity
    THEN GrowCapacity(newCapacity * 2, requiredCapacity)
    ELSE newCapacity

\* for _, item := range items { ... }
RECURSIVE StoreAll(_, _)
StoreAll(queue, items) ==
    IF items = <<>> THEN queue
    ELSE StoreAll(Store(queue, Head(items)), Tail(items))

\* EnqueueBatch growing item by item, as Enqueue does.
RECURSIVE EnqueueBatch_PerItem(_, _, _)
EnqueueBatch_PerItem(queue, items, allocOK) ==
    IF items = <<>> THEN queue
    ELSE EnqueueBatch_PerItem(Enqueue(queue, Head(items), allocOK),
                              Tail(items), allocOK)

\* EnqueueBatch sizing the storage for the batch alone.
EnqueueBatch_NoSize(queue, items, allocOK) ==
    LET batchSize == Len(items)
        requiredCapacity == batchSize
        currentCapacity == Len(queue.data)
    IN  IF batchSize = 0 THEN queue
        ELSE
          LET q1 == IF requiredCapacity > currentCapacity
                    THEN resize(queue,
                                GrowCapacity(currentCapacity,
                                             requiredCapacity),
                                allocOK)
                    ELSE queue
          IN  StoreAll(q1, items)

\* EnqueueBatch growing the storage to exactly the required capacity.
EnqueueBatch_ExactFit(queue, items, allocOK) ==
    LET batchSize == Len(items)
        requiredCapacity == queue.size + batchSize
        currentCapacity == Len(queue.data)
    IN  IF batchSize = 0 THEN queue
        ELSE
          LET q1 == IF requiredCapacity > currentCapacity
                    THEN resize(queue, requiredCapacity, allocOK)
                    ELSE queue
          IN  StoreAll(q1, items)

EnqueueBatch(queue, items, allocOK) ==
    LET batchSize == Len(items)
        requiredCapacity == queue.size + batchSize
        currentCapacity == Len(queue.data)
    IN  IF batchSize = 0 THEN queue
        ELSE
          LET q1 == IF requiredCapacity > currentCapacity
                    THEN resize(queue,
                                GrowCapacity(currentCapacity,
                                             requiredCapacity),
                                allocOK)
                    ELSE queue
          IN  StoreAll(q1, items)

\* Dequeue taking head = tail for the empty queue.
Dequeue_HeadTail(queue, allocOK) ==
    IF queue.head = queue.tail
    THEN [queue |-> queue, element |-> Zero, err |-> TRUE]
    ELSE
      LET element == queue.data[queue.head + 1]
          q1 == [data |-> [queue.data EXCEPT ![queue.head + 1] = Zero],
                 head |-> (queue.head + 1) % Len(queue.data),
                 tail |-> queue.tail,
                 size |-> queue.size - 1,
                 calls |-> queue.calls]
          q2 == IF Len(q1.data) > 1 /\ q1.size <= Len(q1.data) \div 4
                THEN resize(q1, Len(q1.data) \div 2, allocOK)
                ELSE q1
      IN  [queue |-> q2, element |-> element, err |-> FALSE]

\* Dequeue leaving the element in the slot it vacates.
Dequeue_NoClear(queue, allocOK) ==
    IF queue.size = 0
    THEN [queue |-> queue, element |-> Zero, err |-> TRUE]
    ELSE
      LET element == queue.data[queue.head + 1]
          q1 == [data |-> queue.data,
                 head |-> (queue.head + 1) % Len(queue.data),
                 tail |-> queue.tail,
                 size |-> queue.size - 1,
                 calls |-> queue.calls]
          q2 == IF Len(q1.data) > 1 /\ q1.size <= Len(q1.data) \div 4
                THEN resize(q1, Len(q1.data) \div 2, allocOK)
                ELSE q1
      IN  [queue |-> q2, element |-> element, err |-> FALSE]

\* Dequeue that never shrinks the storage.
Dequeue_NoShrink(queue, allocOK) ==
    IF queue.size = 0
    THEN [queue |-> queue, element |-> Zero, err |-> TRUE]
    ELSE
      LET element == queue.data[queue.head + 1]
          q1 == [data |-> [queue.data EXCEPT ![queue.head + 1] = Zero],
                 head |-> (queue.head + 1) % Len(queue.data),
                 tail |-> queue.tail,
                 size |-> queue.size - 1,
                 calls |-> queue.calls]
          q2 == q1
      IN  [queue |-> q2, element |-> element, err |-> FALSE]

\* Dequeue shrinking only below a quarter of the capacity.
Dequeue_StrictQuarter(queue, allocOK) ==
    IF queue.size = 0
    THEN [queue |-> queue, element |-> Zero, err |-> TRUE]
    ELSE
      LET element == queue.data[queue.head + 1]
          q1 == [data |-> [queue.data EXCEPT ![queue.head + 1] = Zero],
                 head |-> (queue.head + 1) % Len(queue.data),
                 tail |-> queue.tail,
                 size |-> queue.size - 1,
                 calls |-> queue.calls]
          q2 == IF Len(q1.data) > 1 /\ q1.size < Len(q1.data) \div 4
                THEN resize(q1, Len(q1.data) \div 2, allocOK)
                ELSE q1
      IN  [queue |-> q2, element |-> element, err |-> FALSE]

\* Dequeue shrinking at half of the capacity.
Dequeue_ShrinkAtHalf(queue, allocOK) ==
    IF queue.size = 0
    THEN [queue |-> queue, element |-> Zero, err |-> TRUE]
    ELSE
      LET element == queue.data[queue.head + 1]
          q1 == [data |-> [queue.data EXCEPT ![queue.head + 1] = Zero],
                 head |-> (queue.head + 1) % Len(queue.data),
                 tail |-> queue.tail,
                 size |-> queue.size - 1,
                 calls |-> queue.calls]
          q2 == IF Len(q1.data) > 1 /\ q1.size <= Len(q1.data) \div 2
                THEN resize(q1, Len(q1.data) \div 2, allocOK)
                ELSE q1
      IN  [queue |-> q2, element |-> element, err |-> FALSE]

\* Dequeue shrinking the storage to a quarter.
Dequeue_QuarterCapacity(queue, allocOK) ==
    IF queue.size = 0
    THEN [queue |-> queue, element |-> Zero, err |-> TRUE]
    ELSE
      LET element == queue.data[queue.head + 1]
          q1 == [data |-> [queue.data EXCEPT ![queue.head + 1] = Zero],
                 head |-> (queue.head + 1) % Len(queue.data),
                 tail |-> queue.tail,
                 size |-> queue.size - 1,
                 calls |-> queue.calls]
          q2 == IF Len(q1.data) > 1 /\ q1.size <= Len(q1.data) \div 4
                THEN resize(q1, Len(q1.data) \div 4, allocOK)
                ELSE q1
      IN  [queue |-> q2, element |-> element, err |-> FALSE]

\* Dequeue shrinking without the test that the capacity exceeds 1.
Dequeue_NoLenCheck(queue, allocOK) ==
    IF queue.size = 0
    THEN [queue |-> queue, element |-> Zero, err |-> TRUE]
    ELSE
      LET element == queue.data[queue.head + 1]
          q1 == [data |-> [queue.data EXCEPT ![queue.head + 1] = Zero],
                 head |-> (queue.head + 1) % Len(queue.data),
                 tail |-> queue.tail,
                 size |-> queue.size - 1,
                 calls |-> queue.calls]
          q2 == IF q1.size <= Len(q1.data) \div 4
                THEN resize(q1, Len(q1.data) \div 2, allocOK)
                ELSE q1
      IN  [queue |-> q2, element |-> element, err |-> FALSE]

\* Dequeue setting the cursors for the new storage itself after resize.
Dequeue_ResetAfterResize(queue, allocOK) ==
    IF queue.size = 0
    THEN [queue |-> queue, element |-> Zero, err |-> TRUE]
    ELSE
      LET element == queue.data[queue.head + 1]
          q1 == [data |-> [queue.data EXCEPT ![queue.head + 1] = Zero],
                 head |-> (queue.head + 1) % Len(queue.data),
                 tail |-> queue.tail,
                 size |-> queue.size - 1,
                 calls |-> queue.calls]
          q2 == IF Len(q1.data) > 1 /\ q1.size <= Len(q1.data) \div 4
                THEN [resize(q1, Len(q1.data) \div 2, allocOK)
                        EXCEPT !.head = 0, !.tail = q1.size]
                ELSE q1
      IN  [queue |-> q2, element |-> element, err |-> FALSE]

\* Dequeue returns the queue after the call, the element and the error.
Dequeue(queue, allocOK) ==
    IF queue.size = 0
    THEN [queue |-> queue, element |-> Zero, err |-> TRUE]
    ELSE
      LET element == queue.data[queue.head + 1]
          q1 == [data |-> [queue.data EXCEPT ![queue.head + 1] = Zero],
                 head |-> (queue.head + 1) % Len(queue.data),
                 tail |-> queue.tail,
                 size |-> queue.size - 1,
                 calls |-> queue.calls]
          q2 == IF Len(q1.data) > 1 /\ q1.size <= Len(q1.data) \div 4
                THEN resize(q1, Len(q1.data) \div 2, allocOK)
                ELSE q1
      IN  [queue |-> q2, element |-> element, err |-> FALSE]

\* The loop of DequeueBatch without the break on an empty queue.
RECURSIVE DequeueBatchFrom_NoBreak(_, _, _, _, _)
DequeueBatchFrom_NoBreak(q, i, batchSize, batch, allocs) ==
    IF ~(i < batchSize) THEN [queue |-> q, batch |-> batch, err |-> FALSE]
    ELSE
      LET r == Dequeue(q, allocs[i + 1])
      IN  IF r.err THEN [queue |-> r.queue, batch |-> <<>>, err |-> TRUE]
          ELSE DequeueBatchFrom_NoBreak(r.queue, i + 1, batchSize,
                                        Append(batch, r.element), allocs)

\* The loop of DequeueBatch from iteration i on; allocs[i + 1] is the
\* outcome of the allocation in the i-th Dequeue, should it resize.
RECURSIVE DequeueBatchFrom(_, _, _, _, _)
DequeueBatchFrom(q, i, batchSize, batch, allocs) ==
    IF ~(i < batchSize) THEN [queue |-> q, batch |-> batch, err |-> FALSE]
    ELSE IF q.size = 0 THEN [queue |-> q, batch |-> batch, err |-> FALSE]
    ELSE
      LET r == Dequeue(q, allocs[i + 1])
      IN  IF r.err THEN [queue |-> r.queue, batch |-> <<>>, err |-> TRUE]
          ELSE DequeueBatchFrom(r.queue, i + 1, batchSize,
                                Append(batch, r.element), allocs)

\* DequeueBatch testing the batch size only after the first Dequeue.
DequeueBatch_DoWhile(q, batchSize, allocs) ==
    IF q.size = 0 THEN [queue |-> q, batch |-> <<>>, err |-> FALSE]
    ELSE LET r == Dequeue(q, allocs[1])
         IN  DequeueBatchFrom(r.queue, 1, batchSize, <<r.element>>, allocs)

\* DequeueBatch removing the elements first and testing for the shrink
\* once, after the last of them.
DequeueBatch_OneShrink(q, batchSize, allocs) ==
    LET n == IF batchSize < 0 THEN 0
             ELSE IF batchSize < q.size THEN batchSize ELSE q.size
        taken == {((q.head + i) % Len(q.data)) + 1 : i \in 0..(n - 1)}
        q1 == [data |-> [j \in 1..Len(q.data) |->
                           IF j \in taken THEN Zero ELSE q.data[j]],
               head |-> (q.head + n) % Len(q.data),
               tail |-> q.tail,
               size |-> q.size - n,
               calls |-> q.calls]
        q2 == IF n > 0 /\ Len(q1.data) > 1
                 /\ q1.size <= Len(q1.data) \div 4
              THEN resize(q1, Len(q1.data) \div 2, allocs[1])
              ELSE q1
    IN  [queue |-> q2,
         batch |-> [i \in 1..n |->
                      q.data[((q.head + (i - 1)) % Len(q.data)) + 1]],
         err |-> FALSE]

DequeueBatch(q, batchSize, allocs) ==
    DequeueBatchFrom(q, 0, batchSize, <<>>, allocs)

\* Peek reading slot 0 instead of the slot at head.
Peek_First(queue) ==
    IF queue.size = 0
    THEN [queue |-> queue, element |-> Zero, err |-> TRUE]
    ELSE [queue |-> queue, element |-> queue.data[1], err |-> FALSE]

\* Peek clearing the slot it reads, as Dequeue does.
Peek_Clear(queue) ==
    IF queue.size = 0
    THEN [queue |-> queue, element |-> Zero, err |-> TRUE]
    ELSE [queue |-> [queue EXCEPT !.data[queue.head + 1] = Zero],
          element |-> queue.data[queue.head + 1],
          err |-> FALSE]

\* Peek returns the queue after the call (which it never assigns to), the
\* element and the error.
Peek(queue) ==
    IF queue.size = 0
    THEN [queue |-> queue, element |-> Zero, err |-> TRUE]
    ELSE [queue |-> queue, element |-> queue.data[queue.head + 1],
          err |-> FALSE]

\* Size answering the capacity.
Size_Capacity(queue) == Len(queue.data)

Size(queue) == queue.size

\* --------------------------------------------------------------- actions
\* Each action is one call.  The allocation outcomes a call is given are
\* drawn from outcomes, and a failing outcome is given only to a call that
\* makes that allocation: an allocation that is not made cannot fail.
SetQueue(q) ==
    /\ data' = q.data
    /\ head' = q.head
    /\ tail' = q.tail
    /\ size' = q.size

Batches == UNION {[1..n -> Elements] : n \in 0..MaxBatch}

AllocSeqs(outcomes) == [1..MaxBatch -> outcomes]

\* The number of failing outcomes in the outcomes handed to one call.
Failures(allocs) == Cardinality({i \in DOMAIN allocs : ~allocs[i]})

Init ==
    \E sizes \in InitRequests :
        /\ data = NewQueue(sizes).data
        /\ head = NewQueue(sizes).head
        /\ tail = NewQueue(sizes).tail
        /\ size = NewQueue(sizes).size
        /\ enqueued = <<>>
        /\ returned = <<>>
        /\ lastOp = "NewQueue"
        /\ lastArg = sizes
        /\ lastRet = NoValue
        /\ lastErr = FALSE
        /\ lastAlloc = TRUE
        /\ prevCap = Len(NewQueue(sizes).data)
        /\ allocFails = 0
        /\ lastResizes = <<>>
        /\ loop = [pc |-> "idle", newCapacity |-> 0,
                   requiredCapacity |-> 0]

DoEnqueue(outcomes) ==
    \E item \in Elements, ok \in outcomes :
        /\ Len(enqueued) + 1 <= MaxEnq
        /\ allocFails + Failures(<<ok>>) <= MaxAllocFails
        /\ ~ok => Enqueue(Queue, item, FALSE) # Enqueue(Queue, item, TRUE)
        /\ SetQueue(Enqueue(Queue, item, ok))
        /\ lastResizes' = Enqueue(Queue, item, ok).calls
        /\ enqueued' = Append(enqueued, item)
        /\ lastOp' = "Enqueue"
        /\ UNCHANGED loop
        /\ lastAlloc' = ok
        /\ allocFails' = allocFails + Failures(<<ok>>)
        /\ prevCap' = Len(data)
        /\ lastArg' = item
        /\ lastRet' = NoValue
        /\ lastErr' = FALSE
        /\ UNCHANGED returned

DoEnqueueBatch(outcomes) ==
    \E items \in Batches, ok \in outcomes :
        /\ Len(enqueued) + Len(items) <= MaxEnq
        /\ allocFails + Failures(<<ok>>) <= MaxAllocFails
        /\ ~ok => EnqueueBatch(Queue, items, FALSE)
                     # EnqueueBatch(Queue, items, TRUE)
        /\ SetQueue(EnqueueBatch(Queue, items, ok))
        /\ lastResizes' = EnqueueBatch(Queue, items, ok).calls
        /\ enqueued' = enqueued \o items
        /\ lastOp' = "EnqueueBatch"
        /\ UNCHANGED loop
        /\ lastAlloc' = ok
        /\ allocFails' = allocFails + Failures(<<ok>>)
        /\ prevCap' = Len(data)
        /\ lastArg' = items
        /\ lastRet' = NoValue
        /\ lastErr' = FALSE
        /\ UNCHANGED returned

DoDequeue(outcomes) ==
    \E ok \in outcomes :
        LET r == Dequeue(Queue, ok)
        IN  /\ allocFails + Failures(<<ok>>) <= MaxAllocFails
            /\ ~ok => Dequeue(Queue, FALSE) # Dequeue(Queue, TRUE)
            /\ SetQueue(r.queue)
            /\ lastResizes' = r.queue.calls
            /\ returned' = IF r.err THEN returned
                           ELSE Append(returned, r.element)
            /\ lastOp' = "Dequeue"
            /\ UNCHANGED loop
            /\ lastAlloc' = ok
            /\ allocFails' = allocFails + Failures(<<ok>>)
            /\ prevCap' = Len(data)
            /\ lastArg' = NoValue
            /\ lastRet' = r.element
            /\ lastErr' = r.err
            /\ UNCHANGED enqueued

DoDequeueBatch(outcomes) ==
    \E batchSize \in -1..MaxBatch, allocs \in AllocSeqs(outcomes) :
        LET r == DequeueBatch(Queue, batchSize, allocs)
        IN  /\ allocFails + Failures(allocs) <= MaxAllocFails
            /\ \A i \in DOMAIN allocs :
                   ~allocs[i] =>
                       r # DequeueBatch(Queue, batchSize,
                                        [allocs EXCEPT ![i] = TRUE])
            /\ SetQueue(r.queue)
            /\ lastResizes' = r.queue.calls
            /\ returned' = IF r.err THEN returned ELSE returned \o r.batch
            /\ lastOp' = "DequeueBatch"
            /\ UNCHANGED loop
            /\ lastAlloc' = allocs
            /\ allocFails' = allocFails + Failures(allocs)
            /\ prevCap' = Len(data)
            /\ lastArg' = batchSize
            /\ lastRet' = r.batch
            /\ lastErr' = r.err
            /\ UNCHANGED enqueued

DoPeek ==
    LET r == Peek(Queue)
    IN  /\ SetQueue(r.queue)
        /\ lastResizes' = r.queue.calls
        /\ lastOp' = "Peek"
        /\ UNCHANGED loop
        /\ lastAlloc' = TRUE
        /\ prevCap' = Len(data)
        /\ lastArg' = NoValue
        /\ lastRet' = r.element
        /\ lastErr' = r.err
        /\ UNCHANGED <<enqueued, returned, allocFails>>

DoSize ==
    /\ lastOp' = "Size"
    /\ UNCHANGED loop
    /\ lastResizes' = <<>>
    /\ lastAlloc' = TRUE
    /\ prevCap' = Len(data)
    /\ lastArg' = NoValue
    /\ lastRet' = Size(Queue)
    /\ lastErr' = FALSE
    /\ UNCHANGED <<data, head, tail, size, enqueued, returned, allocFails>>

\* Every allocation succeeds.
Next ==
    \/ DoEnqueue({TRUE})
    \/ DoEnqueueBatch({TRUE})
    \/ DoDequeue({TRUE})
    \/ DoDequeueBatch({TRUE})
    \/ DoPeek
    \/ DoSize

Spec == Init /\ [][Next]_vars

\* Any allocation made by resize may fail; the calls are the four that
\* can allocate.
NextAllocFail ==
    \/ DoEnqueue(BOOLEAN)
    \/ DoEnqueueBatch(BOOLEAN)
    \/ DoDequeue(BOOLEAN)
    \/ DoDequeueBatch(BOOLEAN)

SpecAllocFail == Init /\ [][NextAllocFail]_vars

\* The queue created by NewQueue[T]() with no argument; every allocation
\* succeeds.
InitDefault == Init /\ lastArg = <<>>

SpecDefault == InitDefault /\ [][Next]_vars

\* resize called on its own, with any requested capacity from -1 to one
\* more than twice the capacity, on a queue the public calls have produced.
DoResize ==
    \E newCapacity \in -1..(2 * Len(data) + 1) :
        /\ lastOp # "resize"
        /\ SetQueue(resize(Queue, newCapacity, TRUE))
        /\ lastResizes' = resize(Queue, newCapacity, TRUE).calls
        /\ lastOp' = "resize"
        /\ UNCHANGED loop
        /\ lastArg' = newCapacity
        /\ lastRet' = NoValue
        /\ lastErr' = FALSE
        /\ lastAlloc' = TRUE
        /\ prevCap' = Len(data)
        /\ UNCHANGED <<enqueued, returned, allocFails>>

\* The public calls that change the queue, then one direct call of resize.
NextResize ==
    \/ /\ lastOp # "resize"
       /\ \/ DoEnqueue({TRUE})
          \/ DoEnqueueBatch({TRUE})
          \/ DoDequeue({TRUE})
          \/ DoDequeueBatch({TRUE})
    \/ DoResize

SpecResize == Init /\ [][NextResize]_vars

\* The value an int holds after an arithmetic result x: x modulo 2^IntBits,
\* read as a signed number.
WrapInt(x) == ((x + 2^(IntBits - 1)) % 2^IntBits) - 2^(IntBits - 1)

\* A new queue of any capacity an int can hold.
InitGrow ==
    \E initialCapacity \in 1..MaxInt :
        /\ data = NewQueue(<<initialCapacity>>).data
        /\ head = NewQueue(<<initialCapacity>>).head
        /\ tail = NewQueue(<<initialCapacity>>).tail
        /\ size = NewQueue(<<initialCapacity>>).size
        /\ enqueued = <<>>
        /\ returned = <<>>
        /\ lastOp = "NewQueue"
        /\ lastArg = <<initialCapacity>>
        /\ lastRet = NoValue
        /\ lastErr = FALSE
        /\ lastAlloc = TRUE
        /\ prevCap = initialCapacity
        /\ allocFails = 0
        /\ lastResizes = <<>>
        /\ loop = [pc |-> "idle", newCapacity |-> 0,
                   requiredCapacity |-> 0]

\* EnqueueBatch up to the doubling loop, for a batch of batchSize items
\* such that size + batchSize fits an int: requiredCapacity is computed
\* and, when it exceeds the capacity, newCapacity starts at the capacity.
BeginEnqueueBatch ==
    \E batchSize \in 1..MaxInt :
        LET requiredCapacity == size + batchSize
            currentCapacity == Len(data)
        IN  /\ loop.pc = "idle"
            /\ requiredCapacity <= MaxInt
            /\ loop' = IF requiredCapacity > currentCapacity
                       THEN [pc |-> "for",
                             newCapacity |-> currentCapacity,
                             requiredCapacity |-> requiredCapacity]
                       ELSE [pc |-> "store",
                             newCapacity |-> currentCapacity,
                             requiredCapacity |-> requiredCapacity]
            /\ UNCHANGED <<data, head, tail, size, enqueued, returned,
                           lastOp, lastArg, lastRet, lastErr, lastAlloc,
                           prevCap, allocFails, lastResizes>>

\* One test of the loop condition: another doubling, or on to resize.
GrowStep ==
    /\ loop.pc = "for"
    /\ loop' = IF loop.newCapacity < loop.requiredCapacity
               THEN [loop EXCEPT !.newCapacity = WrapInt(@ * 2)]
               ELSE [loop EXCEPT !.pc = "resize"]
    /\ UNCHANGED <<data, head, tail, size, enqueued, returned,
                   lastOp, lastArg, lastRet, lastErr, lastAlloc,
                   prevCap, allocFails, lastResizes>>

NextGrow ==
    \/ BeginEnqueueBatch
    \/ GrowStep

\* A loop that can take a step takes it: the call keeps running.
SpecGrow == InitGrow /\ [][NextGrow]_vars /\ WF_vars(GrowStep)

\* ------------------------------------------------ vocabulary of the claims
Min(a, b) == IF a < b THEN a ELSE b

Capacity == Len(data)

\* The logically occupied slots of q, oldest first.
Contents(q) ==
    [i \in 1..q.size |-> q.data[((q.head + (i - 1)) % Len(q.data)) + 1]]

\* The elements enqueued and not yet handed back, oldest first.
Pending == SubSeq(enqueued, Len(returned) + 1, Len(enqueued))

\* Enqueue called on each item of items in order.
RECURSIVE EnqueueEach(_, _)
EnqueueEach(q, items) ==
    IF items = <<>> THEN q
    ELSE EnqueueEach(Enqueue(q, Head(items), TRUE), Tail(items))

\* What n further Dequeue calls hand back: the elements and the errors.
RECURSIVE DequeueTimes(_, _)
DequeueTimes(q, n) ==
    IF n = 0 THEN <<>>
    ELSE LET r == Dequeue(q, TRUE)
         IN  <<<<r.element, r.err>>>> \o DequeueTimes(r.queue, n - 1)

\* C1: FIFO order.  In every reachable state the elements handed back so far
\* are a prefix of the elements enqueued, in the same order, and the slots
\* data[(head+i) mod capacity], i in [0,size), hold exactly the elements
\* enqueued and not yet handed back, oldest first.
C1_FifoOrder ==
    /\ Len(returned) <= Len(enqueued)
    /\ returned = SubSeq(enqueued, 1, Len(returned))
    /\ Contents(Queue) = Pending

\* A state whose occupied slots wrap around the end of the storage after
\* some elements were dequeued.
C1_Witness ==
    /\ size >= 2
    /\ head + size > Capacity
    /\ Len(returned) >= 1
    /\ \E i, j \in 1..Len(enqueued) : enqueued[i] # enqueued[j]

\* C2: Size() equals the number of elements enqueued minus the number of
\* elements successfully dequeued, after any sequence of operations.
C2_SizeInvariant ==
    /\ Size(Queue) = Len(enqueued) - Len(returned)
    /\ lastOp = "Size" => lastRet = Len(enqueued) - Len(returned)

\* Size() answered 2 or more after a batch, a dequeue and a growth.
C2_Witness ==
    /\ lastOp = "Size"
    /\ lastRet >= 2
    /\ Len(returned) >= 1
    /\ Capacity > lastRet

\* C3: Dequeue returns an error, and the zero value, exactly when size = 0
\* at the call; when size > 0 it succeeds with the oldest element.
C3_DequeueError ==
    [][lastOp' = "Dequeue" =>
          /\ lastErr' <=> (size = 0)
          /\ lastErr' => (lastRet' = Zero /\ returned' = returned)
          /\ ~lastErr' => /\ Pending # <<>>
                          /\ lastRet' = Head(Pending)
                          /\ returned' = Append(returned, lastRet')]_vars

\* Dequeue failed on a queue that was filled and then fully drained.
C3_Witness ==
    /\ lastOp = "Dequeue"
    /\ lastErr
    /\ Len(enqueued) >= 2
    /\ Len(returned) = Len(enqueued)

\* C4: Peek returns an error exactly when size = 0; when size > 0 it returns
\* the oldest element, the next Dequeue returns that same element, and a
\* Peek right after a Peek returns the same result.
C4_Peek ==
    [][/\ lastOp' = "Peek" =>
            /\ lastErr' <=> (size = 0)
            /\ size > 0 => (Pending # <<>> /\ lastRet' = Head(Pending))
            /\ size > 0 => <<lastRet', FALSE>> = DequeueTimes(Queue', 1)[1]
       /\ (lastOp = "Peek" /\ ~lastErr /\ lastOp' = "Dequeue") =>
            (~lastErr' /\ lastRet' = lastRet)
       /\ (lastOp = "Peek" /\ lastOp' = "Peek") =>
            (lastErr' = lastErr /\ lastRet' = lastRet)]_vars

\* Peek succeeded on a queue whose head is not slot 0 and whose oldest
\* element differs from the one in slot 0.
C4_Witness ==
    /\ lastOp = "Peek"
    /\ ~lastErr
    /\ head > 0
    /\ size >= 2
    /\ data[1] # data[head + 1]

\* C5: Peek, Size and a failing Dequeue leave storage, capacity, head, tail
\* and size unchanged.
C5_ReadOnly ==
    [][(\/ lastOp' \in {"Peek", "Size"}
        \/ (lastOp' = "Dequeue" /\ lastErr')) =>
          UNCHANGED <<data, head, tail, size>>]_vars

\* Peek succeeded on a queue whose oldest element is a non-zero value in a
\* slot other than slot 0.
C5_Witness ==
    /\ lastOp = "Peek"
    /\ ~lastErr
    /\ size >= 1
    /\ head > 0
    /\ lastRet # Zero

\* C6 as stated: DequeueBatch(batchSize) never fails, returns the first
\* min(batchSize, size) elements and leaves size - min(batchSize, size)
\* elements, for any batchSize.
C6_AsStated ==
    [][lastOp' = "DequeueBatch" =>
          LET k == Min(lastArg', size)
          IN  /\ ~lastErr'
              /\ lastRet' = SubSeq(Contents(Queue), 1, k)
              /\ size' = size - k]_vars

\* C6 amended: DequeueBatch(batchSize) never fails; with
\* k = min(max(batchSize, 0), size) it returns the k oldest elements in
\* dequeue order and leaves the remaining size - k elements in their order.
C6_DequeueBatch ==
    [][lastOp' = "DequeueBatch" =>
          LET k == Min(max(lastArg', 0), size)
          IN  /\ ~lastErr'
              /\ lastRet' = SubSeq(Contents(Queue), 1, k)
              /\ lastRet' = SubSeq(Pending, 1, k)
              /\ size' = size - k
              /\ Contents(Queue') = SubSeq(Contents(Queue), k + 1, size)
              /\ returned' = returned \o lastRet']_vars

\* DequeueBatch asked for more than the queue held and emptied it.
C6_Witness ==
    /\ lastOp = "DequeueBatch"
    /\ lastArg > Len(lastRet)
    /\ Len(lastRet) >= 2
    /\ size = 0

\* C7: EnqueueBatch of no items and DequeueBatch with batchSize <= 0 report
\* no error and leave storage, capacity, head, tail and size unchanged;
\* DequeueBatch returns an empty sequence.
C7_EmptyBatchNoOp ==
    [][/\ (lastOp' = "EnqueueBatch" /\ lastArg' = <<>>) =>
            (~lastErr' /\ UNCHANGED <<data, head, tail, size>>)
       /\ (lastOp' = "DequeueBatch" /\ lastArg' <= 0) =>
            /\ ~lastErr'
            /\ lastRet' = <<>>
            /\ UNCHANGED <<data, head, tail, size>>]_vars

\* DequeueBatch with a batch size of zero or less on a queue holding
\* elements.
C7_Witness ==
    /\ lastOp = "DequeueBatch"
    /\ lastArg <= 0
    /\ size >= 1

\* C8: EnqueueBatch(items) is observably the same as Enqueue on each item in
\* order: the same Size(), the same Peek and the same results from the
\* Dequeue calls that follow (size of them, and one more that fails).
C8_BatchEquivalence ==
    [][lastOp' = "EnqueueBatch" =>
          LET single == EnqueueEach(Queue, lastArg')
          IN  /\ Size(Queue') = Size(single)
              /\ Peek(Queue').element = Peek(single).element
              /\ Peek(Queue').err = Peek(single).err
              /\ DequeueTimes(Queue', Len(enqueued') + 1)
                   = DequeueTimes(single, Len(enqueued') + 1)]_vars

\* EnqueueBatch of two or more items that had to grow a queue that already
\* held elements away from slot 0.
C8_Witness ==
    /\ lastOp = "EnqueueBatch"
    /\ Len(lastArg) >= 2
    /\ size > Len(lastArg)
    /\ Len(returned) >= 1

\* C9: NewQueue gives head = tail = size = 0 and the requested capacity when
\* it is > 0, capacity 1 when none is given or it is <= 0.
C9_NewQueue ==
    lastOp = "NewQueue" =>
        /\ head = 0 /\ tail = 0 /\ size = 0
        /\ Capacity = IF Len(lastArg) > 0 /\ lastArg[1] > 0
                      THEN lastArg[1] ELSE 1
        /\ \A i \in 1..Capacity : data[i] = Zero

\* A queue just created with a requested capacity of zero or less.
C9_Witness ==
    /\ lastOp = "NewQueue"
    /\ Len(lastArg) > 0
    /\ lastArg[1] <= 0
    /\ Capacity = 1

\* C10: capacity >= 1 and 0 <= size <= capacity in every reachable state.
C10_CapacitySize ==
    /\ Capacity >= 1
    /\ 0 <= size
    /\ size <= Capacity
    /\ Capacity >= max(size, 1)

\* A full queue of three or more elements that has grown.
C10_Witness ==
    /\ size = Capacity
    /\ size >= 3
    /\ lastOp \in {"Enqueue", "EnqueueBatch"}

\* C11: cursor invariant.  In every reachable state 0 <= head < capacity,
\* 0 <= tail < capacity and tail = (head + size) mod capacity.
C11_CursorInvariant ==
    /\ 0 <= head /\ head < Capacity
    /\ 0 <= tail /\ tail < Capacity
    /\ tail = (head + size) % Capacity

\* The occupied slots wrap around: the tail is behind the head.
C11_Witness ==
    /\ tail < head
    /\ size >= 2
    /\ tail >= 1

\* C12 as stated: an Enqueue on a full queue whose growth allocation fails
\* overwrites no live element and leaves 0 <= size <= capacity.
C12_AsStated ==
    [][(lastOp' = "Enqueue" /\ size = Capacity /\ lastAlloc' = FALSE) =>
          /\ \A i \in 1..size :
                data'[((head + (i - 1)) % Capacity) + 1]
                    = data[((head + (i - 1)) % Capacity) + 1]
          /\ 0 <= size'
          /\ size' <= Capacity']_vars

\* C13: a resize whose allocation fails returns with storage, capacity,
\* head, tail and size as they were: for every requested capacity in every
\* reachable state, and in the Enqueue that called it, whose effect is then
\* that of its three storing statements alone.
C13_ResizeAbort ==
    /\ [](\A n \in -1..(2 * Capacity + 1) : resize(Queue, n, FALSE) = Queue)
    /\ [][(lastOp' = "Enqueue" /\ lastAlloc' = FALSE) =>
             Queue' = Store(Queue, lastArg')]_vars

\* An Enqueue on a full queue, with elements away from slot 0, whose growth
\* allocation failed.
C13_Witness ==
    /\ lastOp = "Enqueue"
    /\ lastAlloc = FALSE
    /\ Capacity = prevCap
    /\ size = Capacity + 1
    /\ Capacity >= 2
    /\ Len(returned) >= 1

\* C14 as stated: when allocations may fail, 0 <= size <= capacity still
\* holds in every reachable state and the Dequeue calls that follow return
\* the elements enqueued and not yet handed back, in FIFO order.
C14_AsStated ==
    /\ 0 <= size
    /\ size <= Capacity
    /\ LET r == DequeueTimes(Queue, Len(Pending))
       IN  \A i \in 1..Len(Pending) : r[i] = <<Pending[i], FALSE>>

\* The storage indices of the logically occupied slots of q.
Occupied(q) == {((q.head + i) % Len(q.data)) + 1 : i \in 0..(q.size - 1)}

\* C15: no retained references.  In every reachable state every slot that
\* is not logically occupied holds the zero value, and the slot a Dequeue
\* vacates is zero right after the call.
C15_NoRetainedReferences ==
    /\ [](\A j \in 1..Capacity : j \notin Occupied(Queue) => data[j] = Zero)
    /\ [][(lastOp' = "Dequeue" /\ ~lastErr' /\ Capacity' = Capacity) =>
             data'[head + 1] = Zero]_vars

\* A Dequeue handed back a non-zero element from a queue that keeps its
\* storage and still holds elements.
C15_Witness ==
    /\ lastOp = "Dequeue"
    /\ ~lastErr
    /\ lastRet # Zero
    /\ head > 0
    /\ size >= 1
    /\ Capacity = prevCap

\* C16 as stated: right after every successful Dequeue, whatever the initial
\* capacity, capacity <= max(1, 4 * size).
C16_AsStated ==
    [][(lastOp' = "Dequeue" /\ ~lastErr') =>
          Capacity' <= max(1, 4 * size')]_vars

\* C16 amended: right after a successful Dequeue capacity <= max(1, 4 * size)
\* if capacity was below 4 * size before the call; otherwise the call halved
\* the capacity.
C16_ShrinkBound ==
    [][(lastOp' = "Dequeue" /\ ~lastErr') =>
          /\ Capacity < 4 * size => Capacity' <= max(1, 4 * size')
          /\ Capacity >= 4 * size => Capacity' = Capacity \div 2]_vars

\* A successful Dequeue halved a storage of 4 or more slots and left
\* elements in the queue.
C16_Witness ==
    /\ lastOp = "Dequeue"
    /\ ~lastErr
    /\ size >= 1
    /\ prevCap >= 4
    /\ Capacity = prevCap \div 2
    /\ Capacity <= 4 * size

\* C17: on a queue created with the default capacity, whenever everything
\* enqueued has been dequeued the elements came back in their original
\* order, size is 0 and the capacity is back at 1.
C17_BurstThenDrain ==
    Len(returned) = Len(enqueued) =>
        /\ returned = enqueued
        /\ size = 0
        /\ Capacity = 1

\* Four or more elements went through the queue and the Dequeue that
\* emptied it shrank the storage back to one slot.
C17_Witness ==
    /\ Len(enqueued) >= 4
    /\ returned = enqueued
    /\ lastOp = "Dequeue"
    /\ prevCap = 2
    /\ Capacity = 1

\* C18: no resize thrashing.  A Dequeue right after an Enqueue that grew the
\* storage does not resize, and an Enqueue right after a Dequeue that shrank
\* the storage does not resize.
C18_NoThrashing ==
    [][/\ (lastOp = "Enqueue" /\ Capacity > prevCap /\ lastOp' = "Dequeue")
            => Capacity' = Capacity
       /\ (lastOp = "Dequeue" /\ Capacity < prevCap /\ lastOp' = "Enqueue")
            => Capacity' = Capacity]_vars

\* An Enqueue has just doubled a storage of two or more slots, and the
\* Dequeue that can follow keeps the capacity.
C18_Witness ==
    /\ lastOp = "Enqueue"
    /\ Capacity = 2 * prevCap
    /\ prevCap >= 2
    /\ Len(Dequeue(Queue, TRUE).queue.data) = Capacity

\* C20: Enqueue changes the capacity exactly when size = capacity at the
\* call, and then to 2 * capacity; it writes the value at the tail slot (the
\* slot after the live elements once grown), sets tail to the next index
\* modulo the capacity, increments size, and leaves head and every other
\* slot unchanged when it did not grow.
C20_Enqueue ==
    [][lastOp' = "Enqueue" =>
          LET grew == (size = Capacity)
              t == IF grew THEN size ELSE tail
          IN  /\ (Capacity' # Capacity) <=> grew
              /\ grew => Capacity' = 2 * Capacity
              /\ data'[t + 1] = lastArg'
              /\ tail' = (t + 1) % Capacity'
              /\ size' = size + 1
              /\ ~grew => /\ head' = head
                          /\ data' = [data EXCEPT ![tail + 1] = lastArg']]_vars

\* An Enqueue doubled the storage and wrote a non-zero value after the live
\* elements.
C20_Witness ==
    /\ lastOp = "Enqueue"
    /\ Capacity = 2 * prevCap
    /\ size = prevCap + 1
    /\ lastArg # Zero
    /\ data[size] = lastArg
    /\ Len(returned) >= 1

\* C21: a successful Dequeue changes the capacity exactly when, after the
\* decrement, capacity > 1 and size <= capacity \div 4, and then to
\* capacity \div 2, which is at least max(size, 1); otherwise the capacity
\* is unchanged and head advances to (head + 1) mod capacity.
C21_Dequeue ==
    [][(lastOp' = "Dequeue" /\ ~lastErr') =>
          LET shrinks == Capacity > 1 /\ size - 1 <= Capacity \div 4
          IN  /\ size' = size - 1
              /\ (Capacity' # Capacity) <=> shrinks
              /\ shrinks => /\ Capacity' = Capacity \div 2
                            /\ Capacity' >= max(size', 1)
                            /\ Len(lastResizes') = 1
              /\ ~shrinks => /\ head' = (head + 1) % Capacity
                             /\ lastResizes' = <<>>]_vars

\* A successful Dequeue halved a storage of an odd number of slots.
C21_Witness ==
    /\ lastOp = "Dequeue"
    /\ ~lastErr
    /\ prevCap % 2 = 1
    /\ prevCap >= 3
    /\ Capacity = prevCap \div 2

\* The smallest capacity * 2^k, k >= 1, that is at least required.
SmallestDoubling(capacity, required) ==
    LET doublings == {capacity * 2^k : k \in 1..required}
    IN  CHOOSE m \in doublings :
            /\ m >= required
            /\ \A m2 \in doublings : m2 >= required => m <= m2

\* C22: EnqueueBatch of n items resizes at most once: not at all when
\* size + n <= capacity, and otherwise once, to the smallest capacity * 2^k
\* (k >= 1) that is at least size + n.
C22_EnqueueBatchResize ==
    [][lastOp' = "EnqueueBatch" =>
          LET required == size + Len(lastArg')
          IN  /\ Len(lastResizes') <= 1
              /\ required <= Capacity =>
                    (lastResizes' = <<>> /\ Capacity' = Capacity)
              /\ required > Capacity =>
                    /\ Len(lastResizes') = 1
                    /\ lastResizes'[1].newCapacity
                         = SmallestDoubling(Capacity, required)
                    /\ Capacity' = SmallestDoubling(Capacity, required)
                    /\ \E k \in 1..required :
                          Capacity' = Capacity * 2^k]_vars

\* An EnqueueBatch had to double the capacity twice over, in one resize.
C22_Witness ==
    /\ lastOp = "EnqueueBatch"
    /\ Capacity = 4 * prevCap
    /\ Len(lastResizes) = 1
    /\ size > 2 * prevCap

\* C23: resize(newCapacity), for any requested capacity and any state the
\* public calls produce, gives capacity max(newCapacity, size, 1), head 0,
\* the same size, and the occupied elements in their order in slots
\* 0..size-1 of the new storage, the other slots zero.
C23_Resize ==
    [][lastOp' = "resize" =>
          /\ Capacity' = max(max(lastArg', size), 1)
          /\ head' = 0
          /\ size' = size
          /\ \A i \in 1..size : data'[i] = Contents(Queue)[i]
          /\ \A i \in (size + 1)..Capacity' : data'[i] = Zero]_vars

\* resize was asked for less than the size of a queue whose elements
\* wrapped around the end of the storage.
C23_Witness ==
    /\ lastOp = "resize"
    /\ lastArg < size
    /\ size >= 3
    /\ Capacity = size
    /\ prevCap > size
    /\ \E i, j \in 1..size : data[i] # data[j]

\* C24 as stated: after every resize, clamped or not, tail is a valid index
\* and tail = (head + size) mod capacity.
C24_AsStated ==
    [][lastOp' = "resize" =>
          /\ 0 <= tail'
          /\ tail' < Capacity'
          /\ tail' = (head' + size') % Capacity']_vars

\* C25: a Dequeue whose shrink allocation fails, called on a queue whose
\* invariants hold, still returns the oldest element with no error,
\* decrements size, advances head, clears the vacated slot and keeps the
\* capacity and tail; afterwards 0 <= size <= capacity,
\* tail = (head + size) mod capacity and the occupied slots hold the pending
\* elements in FIFO order.
C25_FailedShrink ==
    [][(/\ lastOp' = "Dequeue"
        /\ lastAlloc' = FALSE
        /\ size <= Capacity
        /\ tail = (head + size) % Capacity
        /\ Contents(Queue) = Pending) =>
          /\ ~lastErr'
          /\ lastRet' = Head(Pending)
          /\ size' = size - 1
          /\ head' = (head + 1) % Capacity
          /\ data' = [data EXCEPT ![head + 1] = Zero]
          /\ Capacity' = Capacity
          /\ tail' = tail
          /\ 0 <= size' /\ size' <= Capacity'
          /\ tail' = (head' + size') % Capacity'
          /\ Contents(Queue)' = Pending']_vars

\* A Dequeue whose shrink allocation failed left elements in a queue whose
\* capacity stayed at four times the size or more.
C25_Witness ==
    /\ lastOp = "Dequeue"
    /\ lastAlloc = FALSE
    /\ ~lastErr
    /\ size >= 1
    /\ Capacity >= 4 * size
    /\ Capacity = prevCap
    /\ head > 0
    /\ Contents(Queue) = Pending

\* Dequeue called n times on q: the queue it leaves and the elements it
\* hands back, in order.
RECURSIVE DequeueEach(_, _)
DequeueEach(q, n) ==
    IF n <= 0 THEN [queue |-> q, batch |-> <<>>]
    ELSE LET r == Dequeue(q, TRUE)
             rest == DequeueEach(r.queue, n - 1)
         IN  [queue |-> rest.queue, batch |-> <<r.element>> \o rest.batch]

\* C26: DequeueBatch(n) returns the elements, in order, that min(n, size)
\* consecutive Dequeue calls return (none for n <= 0), with no error, and
\* leaves the same storage contents and capacity, head, tail and size.
C26_DequeueBatchAsSingles ==
    [][lastOp' = "DequeueBatch" =>
          LET s == DequeueEach(Queue, Min(lastArg', size))
          IN  /\ ~lastErr'
              /\ lastRet' = s.batch
              /\ data' = s.queue.data
              /\ head' = s.queue.head
              /\ tail' = s.queue.tail
              /\ size' = s.queue.size]_vars

\* A DequeueBatch that handed back two elements or more and left elements
\* behind, the capacity halving twice on the way.
C26_Witness ==
    /\ lastOp = "DequeueBatch"
    /\ Len(lastRet) >= 2
    /\ size >= 1
    /\ prevCap >= 4 * Capacity
    /\ lastRet[1] # lastRet[2]

\* C27: EnqueueBatch(items) leaves the same storage contents and capacity,
\* head, tail and size as Enqueue called on each of the items in order.
C27_EnqueueBatchAsSingles ==
    [][lastOp' = "EnqueueBatch" =>
          LET s == EnqueueEach(Queue, lastArg')
          IN  /\ data' = s.data
              /\ head' = s.head
              /\ tail' = s.tail
              /\ size' = s.size]_vars

\* An EnqueueBatch on a queue whose elements had wrapped around the end of
\* a storage that is not a power of two, growing it.
C27_Witness ==
    /\ lastOp = "EnqueueBatch"
    /\ prevCap = 3
    /\ Capacity >= 6
    /\ Len(returned) >= 1
    /\ size >= 4
    /\ data[1] # data[2]

RECURSIVE IsPowerOfTwo(_)
IsPowerOfTwo(n) ==
    IF n = 1 THEN TRUE
    ELSE IF n < 1 \/ n % 2 = 1 THEN FALSE
    ELSE IsPowerOfTwo(n \div 2)

\* C28: on a queue created with the default capacity, in every reachable
\* state the capacity is a power of two and either it is 1 or
\* size > capacity / 4 (4 * size > capacity); so the capacity is 1 whenever
\* the queue is empty.
C28_DefaultCapacity ==
    /\ IsPowerOfTwo(Capacity)
    /\ Capacity = 1 \/ 4 * size > Capacity
    /\ Capacity > 1 => Capacity < 4 * size
    /\ size = 0 => Capacity = 1

\* A default-capacity queue grown to capacity 8 and drained to the last
\* size that keeps it.
C28_Witness ==
    /\ Capacity = 8
    /\ size = 3
    /\ lastOp \in {"Dequeue", "DequeueBatch"}

\* C30: every resize call made by Enqueue, EnqueueBatch or Dequeue asks for
\* a capacity strictly greater than the size at the time of the call, and
\* at least 1.
C30_ClampUnused ==
    \A i \in 1..Len(lastResizes) :
        /\ lastResizes[i].newCapacity > lastResizes[i].size
        /\ lastResizes[i].newCapacity >= 1

\* One call that resized twice, the second time down to capacity 1.
C30_Witness ==
    /\ Len(lastResizes) >= 2
    /\ lastResizes[Len(lastResizes)].newCapacity = 1
    /\ lastResizes[Len(lastResizes)].size = 0

\* C29 as stated, for the doubling loop with ints of bounded width: once
\* EnqueueBatch has entered the loop, with size + n representable, it
\* leaves it and goes on to resize.
C29_AsStated == (loop.pc = "for") ~> (loop.pc = "resize")

====
